---- MODULE Spec2Model ----
(***************************************************************************)
(* OllamaOpenAICompatibleProvider                                          *)
(* (packages/core/src/core/openaiContentGenerator/provider/ollama.ts):     *)
(* the detector isOllamaProvider, the client builder buildClient and the   *)
(* request adapter buildRequest, together with the process environment     *)
(* they read and the request objects they copy.                            *)
(*                                                                         *)
(* JavaScript values are tagged tuples; a string is the sequence of its    *)
(* characters, so that concatenation, emptiness and String.includes are    *)
(* computed and not assumed.  Objects live in a heap and are named by      *)
(* their index in it, so that copying and aliasing differ.                 *)
(***************************************************************************)
EXTENDS Integers, Sequences, FiniteSets

VARIABLES
    config,       \* this.contentGeneratorConfig (set by the constructor)
    cliVersion,   \* what this.cliConfig.getCliVersion() returns
    process_env,  \* process.env, restricted to the three OLLAMA_* names
    heap,         \* the request objects: heap[i] is the object with reference i
    made,         \* history: made[i] tells which call produced heap[i]
    last          \* history: the most recent call, its inputs and its result

vars == <<config, cliVersion, process_env, heap, made, last>>

----------------------------------------------------------------------------
(* JavaScript values *)

Undefined == <<"undefined">>
Null      == <<"null">>
Str(s)    == <<"string", s>>
Num(n)    == <<"number", n>>
Bool(b)   == <<"boolean", b>>
Obj(o)    == <<"object", o>>
Ref(n)    == <<"ref", n>>

\* ToBoolean: undefined, null, "", 0 and false are falsy
Truthy(v) ==
    CASE v[1] = "string"  -> Len(v[2]) > 0
      [] v[1] = "number"  -> v[2] # 0
      [] v[1] = "boolean" -> v[2]
      [] v[1] = "object"  -> TRUE
      [] v[1] = "ref"     -> TRUE
      [] OTHER            -> FALSE

\* a || b
Or(a, b) == IF Truthy(a) THEN a ELSE b

\* a ?? b
Coalesce(a, b) == IF a = Undefined \/ a = Null THEN b ELSE a

\* a destructuring default: `x = d` takes d only when the property is undefined
Default(a, d) == IF a = Undefined THEN d ELSE a

\* String.prototype.includes on character sequences
includes(s, sub) ==
    \E i \in 0..(Len(s) - Len(sub)) : SubSeq(s, i + 1, i + Len(sub)) = sub

\* o.f, undefined when o has no property f
Get(o, f) == IF f \in DOMAIN o THEN o[f] ELSE Undefined

\* o.f = v on a copy of the property map
Put(o, f, v) == [g \in DOMAIN o \cup {f} |-> IF g = f THEN v ELSE o[g]]

----------------------------------------------------------------------------
(* String literals of the source *)

S_v1      == <<"/", "v", "1">>
S_11434   == <<"1", "1", "4", "3", "4">>
S_ollama  == <<"o", "l", "l", "a", "m", "a">>
S_unknown == <<"u", "n", "k", "n", "o", "w", "n">>
S_default_url ==
    <<"h", "t", "t", "p", ":", "/", "/", "l", "o", "c", "a", "l", "h", "o", "s", "t",
      ":", "1", "1", "4", "3", "4", "/", "v", "1">>
S_qwen05b == <<"q", "w", "e", "n", ":", "0", ".", "5", "b">>
S_QwenCode == <<"Q", "w", "e", "n", "C", "o", "d", "e", "/">>
S_platform == <<"l", "i", "n", "u", "x">>
S_arch     == <<"x", "6", "4">>

\* imported from ../constants.js; no property below depends on the two values
DEFAULT_TIMEOUT == 120000
DEFAULT_MAX_RETRIES == 3

----------------------------------------------------------------------------
(* The environment and the inputs the specifications draw from *)

EnvNames == {"OLLAMA_HOST", "OLLAMA_MODEL", "OLLAMA_API_KEY"}

\* process.env as the tests leave it: none of the three names set
EmptyEnv == [n \in EnvNames |-> Undefined]

\* values given to an environment variable; "" is a value a shell can export
EnvStrings ==
    [n \in EnvNames |->
        CASE n = "OLLAMA_HOST"    -> {<<>>, <<"h", ":", "9">>}
          [] n = "OLLAMA_MODEL"   -> {<<>>, <<"q", "2", ":", "7", "b">>}
          [] n = "OLLAMA_API_KEY" -> {<<>>, <<"e", "k">>}]

ApiKeys    == {Undefined, Str(<<>>), Str(<<"t", "k">>)}
BaseUrls   == {Undefined, Str(<<>>),
               Str(<<"m", "y", ":", "1", "1", "4", "3", "4", "/", "v", "1">>),
               Str(<<"a", "p", "i", ":", "1", "1", "4", "3", "/", "v", "4">>)}
Models     == {Undefined, Str(<<>>), Str(S_qwen05b)}
Timeouts   == {Undefined, Num(0), Num(5000)}
Retries    == {Undefined, Num(0), Num(5)}
CliVersions == {Undefined, Str(<<"0", ".", "0", ".", "1", "4">>)}
SessionIds == {<<"p", "1">>, <<"p", "2">>}

\* a ContentGeneratorConfig: an absent property reads as undefined
mkConfig(apiKey, baseUrl, model, timeout, maxRetries) ==
    [f \in {"apiKey", "baseUrl", "model", "timeout", "maxRetries"} |->
        CASE f = "apiKey"     -> apiKey
          [] f = "baseUrl"    -> baseUrl
          [] f = "model"      -> model
          [] f = "timeout"    -> timeout
          [] f = "maxRetries" -> maxRetries]

\* the configuration of the tests' beforeEach
mockConfig ==
    mkConfig(Str(<<"t", "k">>), Str(S_default_url), Str(S_qwen05b), Undefined, Undefined)

\* a ChatCompletionCreateParams: model and messages are required by the type,
\* temperature is optional, stream is optional and may be null
mkRequest(model, stream, temperature) ==
    [f \in {"model", "messages"}
           \cup (IF stream = <<"absent">> THEN {} ELSE {"stream"})
           \cup (IF temperature = <<"absent">> THEN {} ELSE {"temperature"}) |->
        CASE f = "model"       -> model
          [] f = "messages"    -> Ref(1)
          [] f = "stream"      -> stream
          [] f = "temperature" -> temperature]

RequestModels  == {Str(<<>>), Str(<<"g", "p", "t", "-", "4">>)}
RequestStreams == {<<"absent">>, Undefined, Null, Bool(TRUE), Bool(FALSE)}
Requests ==
    {mkRequest(m, s, t) : m \in RequestModels, s \in RequestStreams,
                          t \in {<<"absent">>, Num(1)}}

----------------------------------------------------------------------------
(* The provider's methods *)

\* buildHeaders()
buildHeaders(ver) ==
    LET version   == Or(ver, Str(S_unknown))
        userAgent == S_QwenCode \o version[2] \o <<" ", "(">> \o S_platform
                     \o <<";", " ">> \o S_arch \o <<")">>
    IN  [h \in {"User-Agent"} |-> Str(userAgent)]

\* the bug of writing the defaults with ||: a configured 0 is lost
destructureFalsy(cfg) ==
    [apiKey     |-> cfg["apiKey"],
     baseUrl    |-> cfg["baseUrl"],
     timeout    |-> Or(cfg["timeout"], Num(DEFAULT_TIMEOUT)),
     maxRetries |-> Or(cfg["maxRetries"], Num(DEFAULT_MAX_RETRIES))]

\* const { apiKey, baseUrl, timeout = DEFAULT_TIMEOUT,
\*         maxRetries = DEFAULT_MAX_RETRIES } = this.contentGeneratorConfig
destructure(cfg) ==
    [apiKey     |-> cfg["apiKey"],
     baseUrl    |-> cfg["baseUrl"],
     timeout    |-> Default(cfg["timeout"], Num(DEFAULT_TIMEOUT)),
     maxRetries |-> Default(cfg["maxRetries"], Num(DEFAULT_MAX_RETRIES))]

\* the bug of letting the configured key win over OLLAMA_API_KEY
clientApiKeyConfigFirst(env, apiKey) ==
    Or(Or(apiKey, env["OLLAMA_API_KEY"]), Str(S_ollama))

\* process.env['OLLAMA_API_KEY'] || apiKey || 'ollama'
clientApiKey(env, apiKey) ==
    Or(Or(env["OLLAMA_API_KEY"], apiKey), Str(S_ollama))

\* the bug of letting the configured baseUrl win over OLLAMA_HOST
ollamaBaseUrlConfigFirst(env, baseUrl) ==
    IF Truthy(baseUrl)
    THEN baseUrl
    ELSE IF Truthy(env["OLLAMA_HOST"])
         THEN Str(env["OLLAMA_HOST"][2] \o S_v1)
         ELSE Str(S_default_url)

\* process.env['OLLAMA_HOST'] ? `${process.env['OLLAMA_HOST']}/v1`
\*                            : baseUrl || 'http://localhost:11434/v1'
ollamaBaseUrl(env, baseUrl) ==
    IF Truthy(env["OLLAMA_HOST"])
    THEN Str(env["OLLAMA_HOST"][2] \o S_v1)
    ELSE Or(baseUrl, Str(S_default_url))

\* buildClient(): the options handed to new OpenAI(...)
buildClient(cfg, ver, env) ==
    LET d == destructure(cfg)
        defaultHeaders == buildHeaders(ver)
    IN  [apiKey         |-> clientApiKey(env, d.apiKey),
         baseURL        |-> ollamaBaseUrl(env, d.baseUrl),
         timeout        |-> d.timeout,
         maxRetries     |-> d.maxRetries,
         defaultHeaders |-> Obj(defaultHeaders)]

\* the bug of asking for both environment variables
isOllamaProviderAllOf(contentGeneratorConfig, env) ==
    LET hasOllamaHost  == Truthy(env["OLLAMA_HOST"])
        hasOllamaModel == Truthy(env["OLLAMA_MODEL"])
        baseUrl == IF contentGeneratorConfig \in {Undefined, Null}
                   THEN Undefined
                   ELSE Get(contentGeneratorConfig[2], "baseUrl")
        hasOllamaBaseUrl == IF baseUrl \in {Undefined, Null}
                            THEN FALSE
                            ELSE includes(baseUrl[2], S_11434)
    IN  (hasOllamaHost /\ hasOllamaModel) \/ hasOllamaBaseUrl

\* static isOllamaProvider(contentGeneratorConfig)
isOllamaProvider(contentGeneratorConfig, env) ==
    LET hasOllamaHost  == Truthy(env["OLLAMA_HOST"])
        hasOllamaModel == Truthy(env["OLLAMA_MODEL"])
        \* contentGeneratorConfig?.baseUrl
        baseUrl == IF contentGeneratorConfig \in {Undefined, Null}
                   THEN Undefined
                   ELSE Get(contentGeneratorConfig[2], "baseUrl")
        \* !!baseUrl?.includes('11434')
        hasOllamaBaseUrl == IF baseUrl \in {Undefined, Null}
                            THEN FALSE
                            ELSE includes(baseUrl[2], S_11434)
    IN  hasOllamaHost \/ hasOllamaModel \/ hasOllamaBaseUrl

----------------------------------------------------------------------------
(* buildRequest *)

\* the bug of `const updatedRequest = request`: no copy, the same object
AliasCopy(h, request) == [heap |-> h, ref |-> request]

\* const updatedRequest = { ...request }: a new object with the same properties
ShallowCopy(h, request) == [heap |-> Append(h, h[request]), ref |-> Len(h) + 1]

\* the bug of keeping the request's own model when it names one
ResolveModelRequestFirst(env, cfg, request) ==
    LET ollamaModel == env["OLLAMA_MODEL"]
    IN  Or(Or(Get(request, "model"), ollamaModel), cfg["model"])

\* the bug of appending a tag to the resolved model on every call
ResolveModelTagged(env, cfg, request) ==
    LET ollamaModel == env["OLLAMA_MODEL"]
        m == IF Truthy(ollamaModel)
             THEN ollamaModel
             ELSE Or(cfg["model"], Get(request, "model"))
    IN  IF m[1] = "string" THEN Str(m[2] \o <<":", "l">>) ELSE m

\* the value assigned to updatedRequest.model:
\* ollamaModel if set, else this.contentGeneratorConfig.model || request.model
ResolveModel(env, cfg, request) ==
    LET ollamaModel == env["OLLAMA_MODEL"]
    IN  IF Truthy(ollamaModel)
        THEN ollamaModel
        ELSE Or(cfg["model"], Get(request, "model"))

\* the bug of defaulting to streaming
ResolveStreamOn(updatedRequest) ==
    IF Get(updatedRequest, "stream") = Undefined
    THEN Put(updatedRequest, "stream", Bool(TRUE))
    ELSE updatedRequest

\* if (updatedRequest.stream === undefined) updatedRequest.stream = false
ResolveStream(updatedRequest) ==
    IF Get(updatedRequest, "stream") = Undefined
    THEN Put(updatedRequest, "stream", Bool(FALSE))
    ELSE updatedRequest

\* buildRequest(request, _userPromptId): the heap after the call and the
\* reference returned
buildRequest(h, request, userPromptId, cfg, env) ==
    LET c  == ShallowCopy(h, request)
        updatedRequest == c.ref
        m  == ResolveModel(env, cfg, c.heap[request])
        h2 == [c.heap EXCEPT ![updatedRequest] = Put(@, "model", m)]
        h3 == [h2 EXCEPT ![updatedRequest] = ResolveStream(@)]
    IN  [heap |-> h3, ret |-> updatedRequest]

\* the second version of buildRequest: the model is OLLAMA_MODEL or 'qwen:0.5b',
\* and the result is an object literal spreading the request
buildRequestPart000(h, request, userPromptId, env) ==
    LET ollamaModel == Or(env["OLLAMA_MODEL"], Str(S_qwen05b))
        r == h[request]
        literal ==
            IF "stream" \in DOMAIN r
            THEN Put(Put(r, "model", ollamaModel), "stream",
                     Coalesce(r["stream"], Bool(FALSE)))
            ELSE Put(Put(r, "model", ollamaModel), "stream", Bool(FALSE))
    IN  [heap |-> Append(h, literal), ret |-> Len(h) + 1]

----------------------------------------------------------------------------
(* The state machine *)

MaxObjects == 3

NoCall ==
    [op |-> "none", arg |-> Undefined, req |-> 0, sid |-> <<>>, env |-> EmptyEnv,
     ret |-> Undefined, out |-> 0, before |-> Undefined]

\* process.env[n] = v
SetEnv(n, v) ==
    /\ process_env' = [process_env EXCEPT ![n] = Str(v)]
    /\ UNCHANGED <<config, cliVersion, heap, made, last>>

\* delete process.env[n]
DeleteEnv(n) ==
    /\ process_env' = [process_env EXCEPT ![n] = Undefined]
    /\ UNCHANGED <<config, cliVersion, heap, made, last>>

\* the caller is done with an exchange: its objects are dropped
Drop ==
    /\ heap # <<>>
    /\ heap' = <<>>
    /\ made' = <<>>
    /\ last' = NoCall
    /\ UNCHANGED <<config, cliVersion, process_env>>

\* the caller writes a request literal
NewRequest(r) ==
    /\ heap = <<>>
    /\ heap' = <<r>>
    /\ made' = <<[by |-> "caller", from |-> 0, sid |-> <<>>, env |-> EmptyEnv]>>
    /\ last' = NoCall
    /\ UNCHANGED <<config, cliVersion, process_env>>

\* OllamaOpenAICompatibleProvider.isOllamaProvider(arg)
IsOllamaProvider(arg) ==
    /\ last' = [NoCall EXCEPT !.op = "isOllamaProvider", !.arg = arg,
                              !.env = process_env,
                              !.ret = Bool(isOllamaProvider(arg, process_env))]
    /\ UNCHANGED <<config, cliVersion, process_env, heap, made>>

\* the bug of keeping the environment read by the previous buildClient call
BuildClientCached ==
    /\ last' = [NoCall EXCEPT !.op = "buildClient", !.env = process_env,
                              !.ret = Obj(buildClient(config, cliVersion,
                                          IF last.op = "buildClient"
                                          THEN last.env ELSE process_env))]
    /\ UNCHANGED <<config, cliVersion, process_env, heap, made>>

\* provider.buildClient()
BuildClient ==
    /\ last' = [NoCall EXCEPT !.op = "buildClient", !.env = process_env,
                              !.ret = Obj(buildClient(config, cliVersion, process_env))]
    /\ UNCHANGED <<config, cliVersion, process_env, heap, made>>

\* provider.buildRequest(request, userPromptId) on an object of the heap
BuildRequest(request, userPromptId) ==
    /\ request \in DOMAIN heap
    /\ Len(heap) < MaxObjects
    /\ LET r == buildRequest(heap, request, userPromptId, config, process_env)
       IN  /\ heap' = r.heap
           /\ made' = Append(made, [by |-> "buildRequest", from |-> request,
                                    sid |-> userPromptId, env |-> process_env])
           /\ last' = [NoCall EXCEPT !.op = "buildRequest", !.req = request,
                                     !.sid = userPromptId, !.env = process_env,
                                     !.out = r.ret, !.before = Obj(heap[request])]
    /\ UNCHANGED <<config, cliVersion, process_env>>

\* the same call on the second version of the method
BuildRequestPart000(request, userPromptId) ==
    /\ request \in DOMAIN heap
    /\ Len(heap) < MaxObjects
    /\ LET r == buildRequestPart000(heap, request, userPromptId, process_env)
       IN  /\ heap' = r.heap
           /\ made' = Append(made, [by |-> "buildRequestPart000", from |-> request,
                                    sid |-> userPromptId, env |-> process_env])
           /\ last' = [NoCall EXCEPT !.op = "buildRequestPart000", !.req = request,
                                     !.sid = userPromptId, !.env = process_env,
                                     !.out = r.ret, !.before = Obj(heap[request])]
    /\ UNCHANGED <<config, cliVersion, process_env>>

\* what every specification starts from: no variable set, no call made
InitRest ==
    /\ process_env = EmptyEnv
    /\ heap = <<>>
    /\ made = <<>>
    /\ last = NoCall

(* The provider with the tests' configuration or an empty one, every method *)
Init ==
    /\ config \in {mockConfig,
                   mkConfig(Undefined, Undefined, Undefined, Undefined, Undefined)}
    /\ cliVersion = Str(<<"0", ".", "0", ".", "1", "4">>)
    /\ InitRest

Next ==
    \/ \E n \in EnvNames : \E v \in EnvStrings[n] : SetEnv(n, v)
    \/ \E n \in EnvNames : DeleteEnv(n)
    \/ \E arg \in {Undefined, Obj(config)} : IsOllamaProvider(arg)
    \/ BuildClient
    \/ \E r \in {mkRequest(Str(<<"g", "p", "t", "-", "4">>), s, Num(1)) :
                    s \in {<<"absent">>, Bool(TRUE)}} : NewRequest(r)
    \/ Drop
    \/ \E sid \in SessionIds : Len(heap) = 1 /\ BuildRequest(1, sid)

Spec == Init /\ [][Next]_vars

(* buildClient over every configuration *)
InitClient ==
    /\ config \in {mkConfig(k, b, Str(S_qwen05b), t, r) :
                      k \in ApiKeys, b \in BaseUrls, t \in Timeouts, r \in Retries}
    /\ cliVersion \in CliVersions
    /\ InitRest

NextClient ==
    \/ \E n \in EnvNames : \E v \in EnvStrings[n] : SetEnv(n, v)
    \/ \E n \in EnvNames : DeleteEnv(n)
    \/ BuildClient

SpecClient == InitClient /\ [][NextClient]_vars

(* isOllamaProvider over every argument *)
DetectArgs ==
    {Undefined, Null}
    \cup {Obj(mkConfig(Str(<<"t", "k">>), b, Str(S_qwen05b), Undefined, Undefined)) :
             b \in BaseUrls \cup {Str(S_11434), Str(S_default_url)}}

InitDetect ==
    /\ config = mockConfig
    /\ cliVersion = Str(<<"0", ".", "0", ".", "1", "4">>)
    /\ InitRest

NextDetect ==
    \/ \E n \in EnvNames : \E v \in EnvStrings[n] : SetEnv(n, v)
    \/ \E n \in EnvNames : DeleteEnv(n)
    \/ \E arg \in DetectArgs : IsOllamaProvider(arg)

SpecDetect == InitDetect /\ [][NextDetect]_vars

(* buildRequest over every request, configured model and OLLAMA_MODEL *)
InitRequest ==
    /\ config \in {mkConfig(Str(<<"t", "k">>), Str(S_default_url), m, Undefined, Undefined) :
                      m \in Models}
    /\ cliVersion = Str(<<"0", ".", "0", ".", "1", "4">>)
    /\ InitRest

NextRequest ==
    \/ \E v \in EnvStrings["OLLAMA_MODEL"] : SetEnv("OLLAMA_MODEL", v)
    \/ DeleteEnv("OLLAMA_MODEL")
    \/ \E r \in Requests : NewRequest(r)
    \/ Drop
    \/ \E id \in 1..MaxObjects : \E sid \in SessionIds : BuildRequest(id, sid)
    \/ \E sid \in SessionIds : BuildRequestPart000(1, sid)

SpecRequest == InitRequest /\ [][NextRequest]_vars

----------------------------------------------------------------------------
(* Properties of buildClient, under SpecClient *)

\* a non-empty string: an environment variable or a property that is "set"
NonEmpty(v) == v[1] = "string" /\ Len(v[2]) > 0

\* C3: the client's base address is '<OLLAMA_HOST>/v1' when OLLAMA_HOST is set
\* (non-empty), whatever config.baseUrl is; otherwise config.baseUrl itself when
\* one is configured (a non-empty string); otherwise 'http://localhost:11434/v1'.
C3_BaseAddress ==
    last.op = "buildClient" =>
        LET host == last.env["OLLAMA_HOST"]
            url  == last.ret[2].baseURL
        IN  IF NonEmpty(host)
            THEN url = Str(host[2] \o <<"/", "v", "1">>)
            ELSE IF NonEmpty(config["baseUrl"])
                 THEN url = config["baseUrl"]
                 ELSE url = Str(S_default_url)

\* OLLAMA_HOST wins over a configured baseUrl
C3_Witness ==
    /\ last.op = "buildClient"
    /\ NonEmpty(last.env["OLLAMA_HOST"])
    /\ NonEmpty(config["baseUrl"])
    /\ last.ret[2].baseURL # config["baseUrl"]

\* C7 as stated: the API key is OLLAMA_API_KEY when set (non-empty), otherwise
\* config.apiKey when it is defined, otherwise 'ollama'.
C7_FirstDefinedWins ==
    last.op = "buildClient" =>
        LET envKey == last.env["OLLAMA_API_KEY"]
            key    == last.ret[2].apiKey
        IN  IF NonEmpty(envKey)
            THEN key = envKey
            ELSE IF config["apiKey"] # Undefined
                 THEN key = config["apiKey"]
                 ELSE key = Str(S_ollama)

\* C7, amended: the API key is OLLAMA_API_KEY when set (non-empty), otherwise
\* config.apiKey when it is defined and non-empty, otherwise 'ollama'; an empty
\* string counts as absent in the environment and in the configuration alike,
\* and the resulting key is always a non-empty string.
C7_FirstNonEmptyWins ==
    last.op = "buildClient" =>
        LET envKey == last.env["OLLAMA_API_KEY"]
            key    == last.ret[2].apiKey
        IN  /\ IF NonEmpty(envKey)
               THEN key = envKey
               ELSE IF NonEmpty(config["apiKey"])
                    THEN key = config["apiKey"]
                    ELSE key = Str(S_ollama)
            /\ NonEmpty(key)

\* an empty OLLAMA_API_KEY and an empty config.apiKey: the fallback literal
C7_Witness ==
    /\ last.op = "buildClient"
    /\ last.env["OLLAMA_API_KEY"] = Str(<<>>)
    /\ config["apiKey"] = Str(<<>>)
    /\ last.ret[2].apiKey = Str(S_ollama)

\* C10: the client's timeout is config.timeout whenever that is defined, 0
\* included, and DEFAULT_TIMEOUT otherwise; maxRetries likewise with
\* DEFAULT_MAX_RETRIES; whatever the environment holds.
C10_TimeoutAndRetries ==
    last.op = "buildClient" =>
        /\ last.ret[2].timeout =
              (IF config["timeout"] # Undefined
               THEN config["timeout"] ELSE Num(DEFAULT_TIMEOUT))
        /\ last.ret[2].maxRetries =
              (IF config["maxRetries"] # Undefined
               THEN config["maxRetries"] ELSE Num(DEFAULT_MAX_RETRIES))

\* a configured timeout of 0 kept, the retries defaulted, with all three
\* environment variables set
C10_Witness ==
    /\ last.op = "buildClient"
    /\ config["timeout"] = Num(0)
    /\ config["maxRetries"] = Undefined
    /\ \A n \in EnvNames : NonEmpty(last.env[n])
    /\ last.ret[2].timeout = Num(0)
    /\ last.ret[2].maxRetries = Num(DEFAULT_MAX_RETRIES)

----------------------------------------------------------------------------
(* Properties of isOllamaProvider, under SpecDetect *)

\* the argument is a configuration whose baseUrl is a string with '11434' in it
HasPortInBaseUrl(arg) ==
    /\ arg[1] = "object"
    /\ "baseUrl" \in DOMAIN arg[2]
    /\ arg[2]["baseUrl"][1] = "string"
    /\ \E i \in 1..(Len(arg[2]["baseUrl"][2]) - 4) :
          SubSeq(arg[2]["baseUrl"][2], i, i + 4) = <<"1", "1", "4", "3", "4">>

\* C2: isOllamaProvider(config) is true exactly when OLLAMA_HOST is non-empty,
\* or OLLAMA_MODEL is non-empty, or config.baseUrl is defined and contains
\* '11434'; an absent config, an absent baseUrl and an empty environment value
\* count as not present, and the result is always a boolean.
C2_Detects ==
    last.op = "isOllamaProvider" =>
        /\ last.ret \in {Bool(TRUE), Bool(FALSE)}
        /\ last.ret = Bool(TRUE) <=>
              \/ NonEmpty(last.env["OLLAMA_HOST"])
              \/ NonEmpty(last.env["OLLAMA_MODEL"])
              \/ HasPortInBaseUrl(last.arg)

\* detected by OLLAMA_MODEL alone: the host is set to "", the argument is absent
C2_Witness ==
    /\ last.op = "isOllamaProvider"
    /\ last.arg = Undefined
    /\ last.env["OLLAMA_HOST"] = Str(<<>>)
    /\ NonEmpty(last.env["OLLAMA_MODEL"])
    /\ last.ret = Bool(TRUE)

----------------------------------------------------------------------------
(* Properties of buildRequest, under SpecRequest *)

\* the request as it was when the last call took it, and the request returned
LastIn  == last.before[2]
LastOut == heap[last.out]

\* C1: the output model is the first non-empty value among OLLAMA_MODEL,
\* config.model and the input request's model, in that order.
C1_ModelPrecedence ==
    last.op = "buildRequest" =>
        LET e == last.env["OLLAMA_MODEL"]
            c == config["model"]
            r == Get(LastIn, "model")
            m == Get(LastOut, "model")
        IN  /\ NonEmpty(e) => m = e
            /\ ~NonEmpty(e) /\ NonEmpty(c) => m = c
            /\ ~NonEmpty(e) /\ ~NonEmpty(c) /\ NonEmpty(r) => m = r

\* OLLAMA_MODEL set to "", a configured model, a request naming another model:
\* the configured model is used
C1_Witness ==
    /\ last.op = "buildRequest"
    /\ last.env["OLLAMA_MODEL"] = Str(<<>>)
    /\ NonEmpty(config["model"])
    /\ NonEmpty(Get(LastIn, "model"))
    /\ Get(LastIn, "model") # config["model"]
    /\ Get(LastOut, "model") = config["model"]

\* C4: a request that states stream as true or false keeps that value; a
\* request with no stream flag gets stream false; the output's stream is true
\* only if the input's was.  Both versions of buildRequest.
C4_StreamPreserved ==
    last.op \in {"buildRequest", "buildRequestPart000"} =>
        LET i == Get(LastIn, "stream")
            o == Get(LastOut, "stream")
        IN  /\ i \in {Bool(TRUE), Bool(FALSE)} => o = i
            /\ i = Undefined => o = Bool(FALSE)
            /\ o = Bool(TRUE) => i = Bool(TRUE)

\* a request without the stream property, adapted by buildRequest
C4_Witness ==
    /\ last.op = "buildRequest"
    /\ "stream" \notin DOMAIN LastIn
    /\ Get(LastOut, "stream") = Bool(FALSE)

\* C5: after buildRequest the input request holds the values it held before,
\* the returned request is another object, every property of it other than
\* model and stream equals the input's, and no property but stream is added
\* or removed.
C5_InputUntouched ==
    last.op = "buildRequest" =>
        /\ heap[last.req] = LastIn
        /\ last.out # last.req
        /\ \A f \in DOMAIN LastIn \ {"model", "stream"} :
              f \in DOMAIN LastOut /\ LastOut[f] = LastIn[f]
        /\ DOMAIN LastOut \ {"stream"} = DOMAIN LastIn \ {"stream"}

\* a call that changed the model and added stream, on a request with a
\* temperature
C5_Witness ==
    /\ last.op = "buildRequest"
    /\ "stream" \notin DOMAIN LastIn
    /\ "temperature" \in DOMAIN LastIn
    /\ Get(LastOut, "model") # Get(LastIn, "model")
    /\ "stream" \in DOMAIN LastOut

\* C6: buildRequest returns a request whose model is a non-empty string and
\* whose stream is a boolean, for every request, configuration and environment.
C6_DefinedModelAndStream ==
    last.op = "buildRequest" =>
        /\ NonEmpty(Get(LastOut, "model"))
        /\ Get(LastOut, "stream") \in {Bool(TRUE), Bool(FALSE)}

\* C9: with the configuration and the environment fixed, buildRequest applied
\* to its own result returns an equal request, and two calls on the same
\* request return equal requests, whatever session identifiers are passed.
C9_Idempotent ==
    \A b \in DOMAIN heap :
        made[b].by = "buildRequest" =>
            LET a == made[b].from
            IN  /\ made[a].by = "buildRequest" /\ made[a].env = made[b].env
                      => heap[b] = heap[a]
                /\ \A c \in DOMAIN heap :
                      /\ made[c].by = "buildRequest"
                      /\ made[c].from = a
                      /\ made[c].env = made[b].env
                      => heap[c] = heap[b]

\* buildRequest applied to its own result, same environment, another session
C9_Witness ==
    \E b \in DOMAIN heap :
        /\ made[b].by = "buildRequest"
        /\ made[made[b].from].by = "buildRequest"
        /\ made[made[b].from].env = made[b].env
        /\ made[made[b].from].sid # made[b].sid

----------------------------------------------------------------------------
(* Statelessness, under Spec: every method, every environment change *)

\* the result of the last call is what its arguments, the configuration and
\* the environment read at that call give
ResultFromCallTimeInputs ==
    /\ last.op = "isOllamaProvider" =>
          last.ret = Bool(isOllamaProvider(last.arg, last.env))
    /\ last.op = "buildClient" =>
          last.ret = Obj(buildClient(config, cliVersion, last.env))
    /\ last.op = "buildRequest" =>
          LastOut = ResolveStream(Put(LastIn, "model",
                                      ResolveModel(last.env, config, LastIn)))

\* a step that changes the environment is no call, and no step changes the
\* stored configuration
CallsLeaveEnvAndConfig ==
    /\ config' = config
    /\ cliVersion' = cliVersion
    /\ process_env' # process_env => last' = last /\ heap' = heap

\* C8: the environment is read at call time and never cached: across any
\* interleaving of environment changes and calls on one provider, each result
\* is a function of the call's arguments, the configuration and the environment
\* at that call, and no call changes the environment or the configuration.
C8_CallTimeEnvOnly ==
    []ResultFromCallTimeInputs /\ [][CallsLeaveEnvAndConfig]_vars

\* a request adapted while OLLAMA_MODEL was set, the variable deleted since
C8_Witness ==
    /\ last.op = "buildRequest"
    /\ NonEmpty(last.env["OLLAMA_MODEL"])
    /\ Get(LastOut, "model") = last.env["OLLAMA_MODEL"]
    /\ process_env["OLLAMA_MODEL"] = Undefined

====
